---- MODULE Spec2Model ----
(***************************************************************************)
(* A model of the wparty relay server (src/server/server.js): the party    *)
(* registry, the per-connection message handlers, the broadcast relay, the *)
(* liveness monitor and the idle reaper.                                   *)
(*                                                                         *)
(* One step of the model is one run of one event handler of the server     *)
(* (Node runs handlers to completion, one at a time).  `sent` holds the    *)
(* frames the last handler wrote, `last` the event it handled.             *)
(***************************************************************************)
EXTENDS Integers, Sequences, FiniteSets, TLC

(***************************************************************************)
(* Bounds of the model.                                                    *)
(***************************************************************************)
MaxConns == 2      \* connections accepted over a run (each gets a fresh uuid)
NumCodes == 2      \* size of the code space generatePartyCode draws from
MaxTicks == 2      \* how often the clock advances

MaxClientTicks == 6   \* how often the client's clock advances
MaxSockets == 3       \* WebSockets the background worker creates over a run
MaxAttempts == 7      \* reconnect attempts counted over a run
MaxPending == 2       \* calls of connect() suspended at the same time
MaxInFlight == 2      \* frames in flight on a connection, per direction

ConnIds == 1..MaxConns
CodePool == <<"AAAAAA", "BBBBBB", "CCCCCC", "DDDDDD">>
Codes == {CodePool[i] : i \in 1..NumCodes}

(***************************************************************************)
(* Program constants (milliseconds).                                       *)
(***************************************************************************)
MS_TO_HOURS == 1000 * 60 * 60
PARTY_IDLE_TIMEOUT == 24 * 60 * 60 * 1000
\* The clock is sampled once per idle window; every sample is a multiple of
\* the reaper's one-hour interval, so the reaper fires at every sample.
TickMs == PARTY_IDLE_TIMEOUT
\* content.js
SYNC_COOLDOWN == 300
TIME_DRIFT_TOLERANCE == 1          \* seconds
\* popup.js (background worker)
MAX_RECONNECT_DELAY == 30000
\* The client's clock is sampled every ClockStep ms, starting at ClockStart
\* (Date.now() is far from lastSyncTime's initial 0).
ClockStep == 100
ClockStart == 1000

(***************************************************************************)
(* JavaScript values.                                                      *)
(***************************************************************************)
UNDEF == "<undefined>"          \* a missing string field
NULL == "<null>"                \* null where a string is expected
NONSTRING == "<number>"         \* a truthy JSON value that is not a string
NoId == 0                       \* senderId = null
NullVideo == [null |-> TRUE]    \* party.video = null
UndefVideo == [undefined |-> TRUE]   \* message.data = undefined
NullHash == <<>>                \* passwordHash = null
NoNumber == -1                  \* undefined where a number is expected

(***************************************************************************)
(* Inputs.  An environment E names the values the clients put into their   *)
(* messages; the specifications below differ in their environment and in   *)
(* the kinds of message the clients send.                                  *)
(***************************************************************************)
Urls == {"u1", "u2"}
BadCode == ""                   \* a code that names no party (empty)
SyncActions == {"play"}
SyncData == {[currentTime |-> 120]}

\* Membership: no passwords, one video, persistent and non-persistent parties.
CoreEnv ==
    [usernames |-> {"ann"},
     createPasswords |-> {UNDEF},
     joinPasswords |-> {UNDEF},
     persistent |-> BOOLEAN,
     data |-> {[url |-> "u1"]}]

VARIABLES
    parties,            \* the Map `parties`: code -> party record
    readyState,         \* per connection: "NONE", "OPEN", "CLOSING", "CLOSED"
    currentPartyCode,   \* per connection: closure variable currentPartyCode
    username,           \* per connection: closure variable username
    isAlive,            \* per connection: ws.isAlive
    now,                \* Date.now()
    sent,               \* frames written by the last handler, in order
    last,               \* the event the last handler handled
    \* the client's content script (src/extension/content/content.js)
    videoElement,       \* the detected player: currentTime, paused, playbackRate
    isSyncing,          \* the flag that prevents sync loops
    isInParty,
    lastSyncTime,       \* Date.now() of the last outbound sync event
    syncTimers,         \* due times of the pending setTimeout callbacks of applySyncEvent
    adPlaying,          \* what isAdPlaying() returns
    clientNow,          \* Date.now() in the client
    \* the client's background worker (src/extension/popup/popup.js)
    ws,                 \* index of the worker's socket in sockets, 0 for null
    sockets,            \* readyState of every WebSocket the worker has created
    pendingConnects,    \* calls of connect() suspended at `await getServerUrl()`
    reconnectAttempts,
    reconnectTimeout,   \* the pending reconnect timer's delay, 0 for null
    delay,              \* the delay scheduleReconnect computed last
    heartbeatInterval,  \* 1 while the keep-alive interval timer runs, 0 for null
    \* both
    outbox,             \* messages the last client handler sent
    event,              \* the event the last client handler handled
    \* browsers and the server together
    tabs,               \* per browser: the content script's state in the video tab
    storage,            \* per browser: partyCode and inParty in chrome.storage.local
    uplink,             \* per connection: frames in flight from the worker to the server
    downlink            \* per connection: frames in flight from the server to the worker

serverVars == <<parties, readyState, currentPartyCode, username, isAlive, now, sent, last>>
contentVars == <<videoElement, isSyncing, isInParty, lastSyncTime, syncTimers, adPlaying, clientNow>>
workerVars == <<ws, sockets, pendingConnects, reconnectAttempts, reconnectTimeout, delay,
                heartbeatInterval>>
sessionVars == <<tabs, storage, uplink, downlink>>
clientVars == <<contentVars, workerVars, outbox, event, sessionVars>>
vars == <<serverVars, clientVars>>

(***************************************************************************)
(* Helpers on the registry.                                                *)
(***************************************************************************)
Range(s) == {s[i] : i \in 1..Len(s)}
ParticipantIds(party) == {party.participants[i].id : i \in 1..Len(party.participants)}
Has(P, code) == code \in DOMAIN P
\* Map.prototype.delete on parties
MapDelete(P, code) == [c \in (DOMAIN P) \ {code} |-> P[c]]
\* Map.prototype.set on parties
MapSet(P, code, party) == [c \in (DOMAIN P) \cup {code} |-> IF c = code THEN party ELSE P[c]]
\* participants.delete(clientId)
RemoveParticipant(ps, id) == SelectSeq(ps, LAMBDA p : p.id # id)
\* participants.set(clientId, record): an existing key keeps its place
SetParticipant(ps, rec) ==
    IF \E i \in 1..Len(ps) : ps[i].id = rec.id
    THEN [i \in 1..Len(ps) |-> IF ps[i].id = rec.id THEN rec ELSE ps[i]]
    ELSE Append(ps, rec)
Truthy(s) == s \notin {UNDEF, NULL, ""}
OrAnonymous(u) == IF Truthy(u) THEN u ELSE "Anonymous"

\* hashPassword: null for a falsy password, else the digest (injective)
HashThrows(password) == password = NONSTRING
hashPassword(password) == IF ~Truthy(password) THEN NullHash ELSE <<"sha256", password>>

\* generatePartyCode: any code of the code space (Math.random)
generatePartyCode == Codes

Frame(to, msg) == [to |-> to, msg |-> msg]
ErrorMsg(text) == [type |-> "error", message |-> text]

\* broadcastToParty(partyCode, message, senderId)
broadcastToPartyMutIncludeSender(P, rs, partyCode, message, senderId) ==
    IF ~Has(P, partyCode) THEN <<>>
    ELSE LET open == SelectSeq(P[partyCode].participants,
                               LAMBDA p : rs[p.id] = "OPEN")
         IN [i \in 1..Len(open) |-> Frame(open[i].id, message)]
broadcastToParty(P, rs, partyCode, message, senderId) ==
    IF ~Has(P, partyCode) THEN <<>>
    ELSE LET open == SelectSeq(P[partyCode].participants,
                               LAMBDA p : p.id # senderId /\ rs[p.id] = "OPEN")
         IN [i \in 1..Len(open) |-> Frame(open[i].id, message)]

\* broadcastToAllInParty(partyCode, message)
broadcastToAllInPartyMutSkipFirst(P, rs, partyCode, message) ==
    IF ~Has(P, partyCode) THEN <<>>
    ELSE LET open == SelectSeq(P[partyCode].participants,
                               LAMBDA p : rs[p.id] = "OPEN")
         IN [i \in 1..(Len(open) - 1) |-> Frame(open[i + 1].id, message)]
broadcastToAllInPartyMutIgnoresReadyState(P, rs, partyCode, message) ==
    IF ~Has(P, partyCode) THEN <<>>
    ELSE LET all == P[partyCode].participants
         IN [i \in 1..Len(all) |-> Frame(all[i].id, message)]
broadcastToAllInParty(P, rs, partyCode, message) ==
    IF ~Has(P, partyCode) THEN <<>>
    ELSE LET open == SelectSeq(P[partyCode].participants,
                               LAMBDA p : rs[p.id] = "OPEN")
         IN [i \in 1..Len(open) |-> Frame(open[i].id, message)]

\* getParticipantList(partyCode)
getParticipantListMutAllSynced(P, partyCode) ==
    IF ~Has(P, partyCode) THEN <<>>
    ELSE LET party == P[partyCode]
             hasUrl == party.video # NullVideo /\ party.video # UndefVideo
             partyVideoUrl == IF hasUrl THEN party.video.url ELSE NULL
         IN [i \in 1..Len(party.participants) |->
               LET client == party.participants[i]
               IN [username |-> client.username,
                   videoUrl |-> IF Truthy(client.videoUrl) THEN client.videoUrl ELSE NULL,
                   synced |-> Truthy(partyVideoUrl)]]
getParticipantList(P, partyCode) ==
    IF ~Has(P, partyCode) THEN <<>>
    ELSE LET party == P[partyCode]
             hasUrl == party.video # NullVideo /\ party.video # UndefVideo
             partyVideoUrl == IF hasUrl THEN party.video.url ELSE NULL
         IN [i \in 1..Len(party.participants) |->
               LET client == party.participants[i]
               IN [username |-> client.username,
                   videoUrl |-> IF Truthy(client.videoUrl) THEN client.videoUrl ELSE NULL,
                   synced |-> IF Truthy(partyVideoUrl)
                              THEN client.videoUrl = partyVideoUrl ELSE FALSE]]
ParticipantsMsg(P, partyCode) ==
    [type |-> "participants", participants |-> getParticipantList(P, partyCode)]

\* cleanupEmptyParty(partyCode), run at time t
cleanupEmptyParty(P, partyCode, t) ==
    IF Has(P, partyCode) /\ Len(P[partyCode].participants) = 0
    THEN IF P[partyCode].persistent
         THEN [P EXCEPT ![partyCode].lastActivity = t]
         ELSE MapDelete(P, partyCode)
    ELSE P

\* cleanupIdleParties(), run at time t
IdleExpired(party, t) ==
    /\ party.persistent
    /\ Len(party.participants) = 0
    /\ t - party.lastActivity > PARTY_IDLE_TIMEOUT
cleanupIdleParties(P, t) ==
    [c \in {d \in DOMAIN P : ~IdleExpired(P[d], t)} |-> P[c]]

(***************************************************************************)
(* Initial state: the server has started, nobody has connected; the        *)
(* client's scripts are loaded, a paused video is detected, the worker has *)
(* no socket yet, nothing is stored and nothing is in flight.              *)
(***************************************************************************)
Browsers == ConnIds
\* The content script right after its page has loaded.
FreshTab ==
    [videoElement |-> [currentTime |-> 0, paused |-> TRUE, playbackRate |-> 1],
     isSyncing |-> FALSE,
     isInParty |-> FALSE,
     lastSyncTime |-> 0,
     syncTimers |-> {}]
ClientInit ==
    /\ videoElement = [currentTime |-> 0, paused |-> TRUE, playbackRate |-> 1]
    /\ isSyncing = FALSE
    /\ isInParty = FALSE
    /\ lastSyncTime = 0
    /\ syncTimers = {}
    /\ adPlaying = FALSE
    /\ clientNow = ClockStart
    /\ ws = 0
    /\ sockets = <<>>
    /\ pendingConnects = 0
    /\ reconnectAttempts = 0
    /\ reconnectTimeout = 0
    /\ delay = 0
    /\ heartbeatInterval = 0
    /\ outbox = <<>>
    /\ event = [kind |-> "load"]
    /\ tabs = [b \in Browsers |-> FreshTab]
    /\ storage = [b \in Browsers |-> [partyCode |-> NULL, inParty |-> FALSE]]
    /\ uplink = [c \in ConnIds |-> <<>>]
    /\ downlink = [c \in ConnIds |-> <<>>]
Init ==
    /\ parties = <<>>
    /\ readyState = [c \in ConnIds |-> "NONE"]
    /\ currentPartyCode = [c \in ConnIds |-> NULL]
    /\ username = [c \in ConnIds |-> NULL]
    /\ isAlive = [c \in ConnIds |-> TRUE]
    /\ now = 0
    /\ sent = <<>>
    /\ last = [kind |-> "start", from |-> NoId]
    /\ ClientInit

\* What a run of connection c's message handler leaves behind in the server.
ServerHandled(c, P, cur, un, out, ev) ==
    /\ parties' = P
    /\ currentPartyCode' = [currentPartyCode EXCEPT ![c] = cur]
    /\ username' = [username EXCEPT ![c] = un]
    /\ sent' = out
    /\ last' = ev
    /\ UNCHANGED <<readyState, isAlive, now>>
\* The same, seen from a server whose clients are not modelled.
Handled(c, P, cur, un, out, ev) ==
    /\ ServerHandled(c, P, cur, un, out, ev)
    /\ UNCHANGED clientVars
\* What a case of the handler's switch computes: the registry, the closure
\* variables of connection c and the frames written.
Outcome(P, cur, un, out) == [parties |-> P, cur |-> cur, un |-> un, out |-> out]

InvalidFormat(c) == Frame(c, ErrorMsg("Invalid message format"))

\* wss.on('connection'): connections are accepted in the order of their ids
Connect(c) ==
    /\ readyState[c] = "NONE"
    /\ \A d \in ConnIds : d < c => readyState[d] # "NONE"
    /\ readyState' = [readyState EXCEPT ![c] = "OPEN"]
    /\ currentPartyCode' = [currentPartyCode EXCEPT ![c] = NULL]
    /\ username' = [username EXCEPT ![c] = NULL]
    /\ isAlive' = [isAlive EXCEPT ![c] = TRUE]
    /\ sent' = <<>>
    /\ last' = [kind |-> "connection", from |-> c]
    /\ UNCHANGED <<parties, now, clientVars>>

\* case 'create-party'
NewParty(P, c, uname, passwordHash, persistent, t) ==
    [participants |-> <<[id |-> c, username |-> uname, videoUrl |-> NULL]>>,
     video |-> NullVideo,
     passwordHash |-> passwordHash,
     persistent |-> persistent,
     lastActivity |-> t]
CreatePartyCase(c, un, pw, persistent, partyCode) ==
    LET uname == OrAnonymous(un)
    IN IF HashThrows(pw)
       THEN Outcome(parties, currentPartyCode[c], uname, <<InvalidFormat(c)>>)
       ELSE LET passwordHash == hashPassword(pw)
            IN Outcome(MapSet(parties, partyCode,
                              NewParty(parties, c, uname, passwordHash, persistent, now)),
                       partyCode, uname,
                       <<Frame(c, [type |-> "party-created", partyCode |-> partyCode,
                                   username |-> uname,
                                   hasPassword |-> passwordHash # NullHash,
                                   persistent |-> persistent])>>)
CreateParty(c, E) ==
    /\ readyState[c] = "OPEN"
    /\ \E un \in E.usernames, pw \in E.createPasswords, persistent \in E.persistent,
          partyCode \in generatePartyCode :
         LET o == CreatePartyCase(c, un, pw, persistent, partyCode)
             ev == [kind |-> "create-party", from |-> c, username |-> un,
                    password |-> pw, persistent |-> persistent]
         IN Handled(c, o.parties, o.cur, o.un, o.out, ev)

\* case 'join': the password check (lines 178-188)
PasswordWrongMutSkipMissing(party, pw) ==
    Truthy(pw) /\ party.passwordHash # NullHash /\ hashPassword(pw) # party.passwordHash
PasswordWrong(party, pw) ==
    party.passwordHash # NullHash /\ hashPassword(pw) # party.passwordHash
PasswordCheckThrows(party, pw) ==
    party.passwordHash # NullHash /\ HashThrows(pw)
\* case 'join': "Remove from previous party if any" (lines 190-199)
LeaveCurrent(P, rs, c, cur, t) ==
    IF cur # NULL /\ Has(P, cur)
    THEN LET P1 == [P EXCEPT ![cur].participants = RemoveParticipant(@, c)]
         IN [parties |-> cleanupEmptyParty(P1, cur, t),
             out |-> broadcastToAllInParty(P1, rs, cur, ParticipantsMsg(P1, cur)),
             did |-> TRUE]
    ELSE [parties |-> P, out |-> <<>>, did |-> FALSE]
JoinCase(c, joinPartyCode, un, pw) ==
    LET uname == OrAnonymous(un)
        cur == currentPartyCode[c]
    IN IF ~Has(parties, joinPartyCode)
       THEN Outcome(parties, cur, uname, <<Frame(c, ErrorMsg("Party not found"))>>)
       ELSE IF PasswordCheckThrows(parties[joinPartyCode], pw)
       THEN Outcome(parties, cur, uname, <<InvalidFormat(c)>>)
       ELSE IF PasswordWrong(parties[joinPartyCode], pw)
       THEN Outcome(parties, cur, uname, <<Frame(c, ErrorMsg("Incorrect password"))>>)
       ELSE LET left == LeaveCurrent(parties, readyState, c, cur, now)
                P2 == left.parties
            IN IF ~Has(P2, joinPartyCode)
               \* parties.get(joinPartyCode) is undefined: TypeError, caught
               THEN Outcome(P2, joinPartyCode, uname, left.out \o <<InvalidFormat(c)>>)
               ELSE LET P3 == [P2 EXCEPT
                                 ![joinPartyCode].participants =
                                     SetParticipant(@, [id |-> c, username |-> uname,
                                                        videoUrl |-> NULL]),
                                 ![joinPartyCode].lastActivity = now]
                    IN Outcome(P3, joinPartyCode, uname,
                               left.out
                               \o <<Frame(c, [type |-> "joined",
                                              partyCode |-> joinPartyCode,
                                              username |-> uname,
                                              participants |-> getParticipantList(P3, joinPartyCode),
                                              video |-> P3[joinPartyCode].video])>>
                               \o broadcastToAllInParty(P3, readyState, joinPartyCode,
                                                        ParticipantsMsg(P3, joinPartyCode)))
Join(c, E) ==
    /\ readyState[c] = "OPEN"
    /\ \E joinPartyCode \in Codes \cup {BadCode}, un \in E.usernames, pw \in E.joinPasswords :
         LET o == JoinCase(c, joinPartyCode, un, pw)
             ev == [kind |-> "join", from |-> c, partyCode |-> joinPartyCode,
                    username |-> un, password |-> pw]
         IN Handled(c, o.parties, o.cur, o.un, o.out, ev)

\* case 'leave'
LeaveCase(c) ==
    LET cur == currentPartyCode[c]
        left == LeaveCurrent(parties, readyState, c, cur, now)
    IN Outcome(left.parties, IF left.did THEN NULL ELSE cur, username[c],
               left.out \o <<Frame(c, [type |-> "left"])>>)
Leave(c) ==
    /\ readyState[c] = "OPEN"
    /\ LET o == LeaveCase(c)
       IN Handled(c, o.parties, o.cur, o.un, o.out, [kind |-> "leave", from |-> c])

\* case 'sync'
SyncCase(c, action, data) ==
    LET cur == currentPartyCode[c]
    IN IF cur = NULL
       THEN Outcome(parties, cur, username[c], <<Frame(c, ErrorMsg("Not in a party"))>>)
       ELSE Outcome(parties, cur, username[c],
                    broadcastToParty(parties, readyState, cur,
                                     [type |-> "sync", action |-> action,
                                      data |-> data, username |-> username[c]], c))
Sync(c) ==
    /\ readyState[c] = "OPEN"
    /\ \E action \in SyncActions, data \in SyncData :
         LET o == SyncCase(c, action, data)
             ev == [kind |-> "sync", from |-> c, action |-> action, data |-> data]
         IN Handled(c, o.parties, o.cur, o.un, o.out, ev)

\* case 'video-info': party.video = message.data
DescribedMutFirstWriterWins(party, data) ==
    IF party.video = NullVideo THEN [party EXCEPT !.video = data] ELSE party
Described(party, data) == [party EXCEPT !.video = data]
\* case 'video-info'
VideoInfoCase(c, data) ==
    LET cur == currentPartyCode[c]
    IN IF cur # NULL /\ Has(parties, cur)
       THEN LET P1 == [parties EXCEPT ![cur] = Described(@, data)]
                isParticipant == c \in ParticipantIds(P1[cur])
            IN IF isParticipant /\ data = UndefVideo
               \* message.data.url on undefined: TypeError, caught
               THEN Outcome(P1, cur, username[c], <<InvalidFormat(c)>>)
               ELSE LET P2 == IF isParticipant
                              THEN [P1 EXCEPT ![cur].participants =
                                      [i \in 1..Len(@) |->
                                         IF @[i].id = c
                                         THEN [@[i] EXCEPT !.videoUrl =
                                                 IF Truthy(data.url) THEN data.url ELSE NULL]
                                         ELSE @[i]]]
                              ELSE P1
                    IN Outcome(P2, cur, username[c],
                               broadcastToParty(P2, readyState, cur,
                                                [type |-> "video-info", data |-> data,
                                                 username |-> username[c]], c)
                               \o broadcastToAllInParty(P2, readyState, cur,
                                                        ParticipantsMsg(P2, cur)))
       ELSE Outcome(parties, cur, username[c], <<>>)
VideoInfo(c, E) ==
    /\ readyState[c] = "OPEN"
    /\ \E data \in E.data :
         LET o == VideoInfoCase(c, data)
             ev == [kind |-> "video-info", from |-> c, data |-> data]
         IN Handled(c, o.parties, o.cur, o.un, o.out, ev)

\* case 'ping'
PingMutAcknowledges(c) ==
    /\ readyState[c] = "OPEN"
    /\ isAlive' = [isAlive EXCEPT ![c] = TRUE]
    /\ sent' = <<Frame(c, [type |-> "pong"])>>
    /\ last' = [kind |-> "ping", from |-> c]
    /\ UNCHANGED <<parties, readyState, currentPartyCode, username, now, clientVars>>
Ping(c) ==
    /\ readyState[c] = "OPEN"
    /\ Handled(c, parties, currentPartyCode[c], username[c],
               <<Frame(c, [type |-> "pong"])>>, [kind |-> "ping", from |-> c])

\* default: an unrecognised type is logged
UnknownType(c) ==
    /\ readyState[c] = "OPEN"
    /\ Handled(c, parties, currentPartyCode[c], username[c], <<>>,
               [kind |-> "unknown", from |-> c])

\* JSON.parse throws on the frame
MalformedMutCloses(c) ==
    /\ readyState[c] = "OPEN"
    /\ readyState' = [readyState EXCEPT ![c] = "CLOSING"]
    /\ sent' = <<InvalidFormat(c)>>
    /\ last' = [kind |-> "malformed", from |-> c]
    /\ UNCHANGED <<parties, currentPartyCode, username, isAlive, now, clientVars>>
Malformed(c) ==
    /\ readyState[c] = "OPEN"
    /\ Handled(c, parties, currentPartyCode[c], username[c], <<InvalidFormat(c)>>,
               [kind |-> "malformed", from |-> c])

\* The channel stops being writable (close frame, transport error, terminate);
\* the 'close' event is emitted later.
BeginClose(c) ==
    /\ readyState[c] = "OPEN"
    /\ readyState' = [readyState EXCEPT ![c] = "CLOSING"]
    /\ sent' = <<>>
    /\ last' = [kind |-> "closing", from |-> c]
    /\ UNCHANGED <<parties, currentPartyCode, username, isAlive, now, clientVars>>

\* ws.on('close')
OnClose(c) ==
    /\ readyState[c] = "CLOSING"
    /\ LET rs == [readyState EXCEPT ![c] = "CLOSED"]
           cur == currentPartyCode[c]
       IN /\ readyState' = rs
          /\ IF cur # NULL /\ Has(parties, cur)
             THEN LET P1 == [parties EXCEPT ![cur].participants = RemoveParticipant(@, c)]
                  IN /\ sent' = broadcastToAllInParty(P1, rs, cur, ParticipantsMsg(P1, cur))
                     /\ parties' = cleanupEmptyParty(P1, cur, now)
             ELSE /\ sent' = <<>>
                  /\ parties' = parties
    /\ last' = [kind |-> "close", from |-> c]
    /\ UNCHANGED <<currentPartyCode, username, isAlive, now, clientVars>>

\* ws.on('pong')
Pong(c) ==
    /\ readyState[c] = "OPEN"
    /\ isAlive[c] = FALSE
    /\ isAlive' = [isAlive EXCEPT ![c] = TRUE]
    /\ sent' = <<>>
    /\ last' = [kind |-> "pong", from |-> c]
    /\ UNCHANGED <<parties, readyState, currentPartyCode, username, now, clientVars>>

\* heartbeatInterval callback over wss.clients
HeartbeatMutNeverTerminates ==
    /\ \E c \in ConnIds : readyState[c] \in {"OPEN", "CLOSING"}
    /\ isAlive' = [c \in ConnIds |->
                     IF readyState[c] \in {"OPEN", "CLOSING"} THEN FALSE ELSE isAlive[c]]
    /\ sent' = <<>>
    /\ last' = [kind |-> "heartbeat", from |-> NoId]
    /\ UNCHANGED <<parties, readyState, currentPartyCode, username, now, clientVars>>
HeartbeatMutTerminatesAcknowledged ==
    /\ \E c \in ConnIds : readyState[c] \in {"OPEN", "CLOSING"}
    /\ readyState' = [c \in ConnIds |->
                        IF readyState[c] = "OPEN" THEN "CLOSING" ELSE readyState[c]]
    /\ isAlive' = [c \in ConnIds |->
                     IF readyState[c] \in {"OPEN", "CLOSING"} THEN FALSE ELSE isAlive[c]]
    /\ sent' = <<>>
    /\ last' = [kind |-> "heartbeat", from |-> NoId]
    /\ UNCHANGED <<parties, currentPartyCode, username, now, clientVars>>
Heartbeat ==
    /\ \E c \in ConnIds : readyState[c] \in {"OPEN", "CLOSING"}
    /\ readyState' = [c \in ConnIds |->
                        IF readyState[c] = "OPEN" /\ isAlive[c] = FALSE
                        THEN "CLOSING" ELSE readyState[c]]
    /\ isAlive' = [c \in ConnIds |->
                     IF readyState[c] \in {"OPEN", "CLOSING"} THEN FALSE ELSE isAlive[c]]
    /\ sent' = <<>>
    /\ last' = [kind |-> "heartbeat", from |-> NoId]
    /\ UNCHANGED <<parties, currentPartyCode, username, now, clientVars>>

\* setInterval(cleanupIdleParties, one hour): the reaper's callback
Reaper ==
    /\ parties' = cleanupIdleParties(parties, now)
    /\ sent' = <<>>
    /\ last' = [kind |-> "reaper", from |-> NoId]
    /\ UNCHANGED <<readyState, currentPartyCode, username, isAlive, now, clientVars>>

\* Time passes: the clock moves to its next sample.
Tick ==
    /\ now < MaxTicks * TickMs
    /\ now' = now + TickMs
    /\ sent' = <<>>
    /\ last' = [kind |-> "tick", from |-> NoId]
    /\ UNCHANGED <<parties, readyState, currentPartyCode, username, isAlive, clientVars>>

(***************************************************************************)
(* The client's content script (content.js; the variant in                 *)
(* src/unnamed/part_001 has the same guards and routes its player          *)
(* mutations through the Netflix controls).  Positions are in              *)
(* milliseconds.  An environment V names the positions and rates the       *)
(* player and the remote events take.                                      *)
(***************************************************************************)
Abs(x) == IF x < 0 THEN -x ELSE x
SyncEventNames == {"play", "pause", "seek", "ratechange"}
\* message.data.data || {} of an inbound sync message
RemoteData(V) ==
    [currentTime : V.positions \cup {NoNumber}, playbackRate : V.rates \cup {NoNumber}]

\* What a run of a content-script handler leaves behind.
ContentHandled(video, syncing, inParty, lst, timers, out, ev) ==
    /\ videoElement' = video
    /\ isSyncing' = syncing
    /\ isInParty' = inParty
    /\ lastSyncTime' = lst
    /\ syncTimers' = timers
    /\ outbox' = out
    /\ event' = ev
    /\ UNCHANGED <<adPlaying, clientNow, workerVars, sessionVars, serverVars>>

\* applySyncEvent: the drift test of the cases 'play', 'pause', 'ratechange'
DriftExceeded(local, remote) ==
    Abs(local - remote) > TIME_DRIFT_TOLERANCE * 1000
\* applySyncEvent: the switch on action, as the player's state after it
Corrected(video, data) ==
    IF data.currentTime # NoNumber /\ DriftExceeded(video.currentTime, data.currentTime)
    THEN [video EXCEPT !.currentTime = data.currentTime]
    ELSE video
Rated(video, data) ==
    IF data.playbackRate # NoNumber /\ video.playbackRate # data.playbackRate
    THEN [video EXCEPT !.playbackRate = data.playbackRate]
    ELSE video
Mutated(video, action, data) ==
    CASE action = "play" -> [Rated(Corrected(video, data), data) EXCEPT !.paused = FALSE]
      [] action = "pause" -> [Corrected(video, data) EXCEPT !.paused = TRUE]
      [] action = "seek" -> IF data.currentTime # NoNumber
                            THEN [video EXCEPT !.currentTime = data.currentTime]
                            ELSE video
      [] action = "ratechange" -> Corrected(Rated(video, data), data)
      [] OTHER -> video

\* onMessage case 'sync': applySyncEvent(action, data)
applySyncEvent(action, data) ==
    LET ev == [kind |-> "sync", action |-> action, data |-> data,
              was |-> videoElement.currentTime]
    IN IF adPlaying
       THEN ContentHandled(videoElement, isSyncing, isInParty, lastSyncTime, syncTimers, <<>>, ev)
       ELSE ContentHandled(Mutated(videoElement, action, data), TRUE, isInParty,
                           lastSyncTime, syncTimers \cup {clientNow + SYNC_COOLDOWN},
                           <<>>, ev)
RemoteSync(V) ==
    \E action \in SyncEventNames, data \in RemoteData(V) : applySyncEvent(action, data)

\* The callback of applySyncEvent's setTimeout(..., SYNC_COOLDOWN)
SyncTimerFires ==
    \E due \in syncTimers :
        /\ clientNow >= due
        /\ isSyncing' = FALSE
        /\ syncTimers' = syncTimers \ {due}
        /\ outbox' = <<>>
        /\ event' = [kind |-> "timer", due |-> due]
        /\ UNCHANGED <<videoElement, isInParty, lastSyncTime, adPlaying, clientNow,
                       workerVars, sessionVars, serverVars>>

\* handlePlay / handlePause / handleSeeked / handleRateChange: what the
\* handler sends for the player's state video
SyncEventData(action, video) ==
    CASE action = "play" -> [currentTime |-> video.currentTime,
                             playbackRate |-> video.playbackRate]
      [] action = "ratechange" -> [playbackRate |-> video.playbackRate,
                                   currentTime |-> video.currentTime]
      [] OTHER -> [currentTime |-> video.currentTime]
\* The player's state when it fires the native event of action
Fired(video, action, V) ==
    CASE action = "play" -> {[video EXCEPT !.paused = FALSE]}
      [] action = "pause" -> {[video EXCEPT !.paused = TRUE]}
      [] action = "seek" -> {[video EXCEPT !.currentTime = t] : t \in V.positions}
      [] OTHER -> {[video EXCEPT !.playbackRate = r] : r \in V.rates}
NativeEvent(V) ==
    \E action \in SyncEventNames :
      \E video \in Fired(videoElement, action, V) :
        LET ev == [kind |-> "native", action |-> action]
        IN IF isSyncing \/ ~isInParty \/ adPlaying
              \/ clientNow - lastSyncTime < SYNC_COOLDOWN
           THEN ContentHandled(video, isSyncing, isInParty, lastSyncTime, syncTimers, <<>>, ev)
           ELSE ContentHandled(video, isSyncing, isInParty, clientNow, syncTimers,
                               <<[type |-> "sync-event", action |-> action,
                                  data |-> SyncEventData(action, video)]>>, ev)

\* onMessage case 'joined' (sendVideoInfo reports the page's video)
OnJoined ==
    /\ ContentHandled(videoElement, isSyncing, TRUE, lastSyncTime, syncTimers,
                      <<[type |-> "video-info"]>>, [kind |-> "joined"])
\* onMessage case 'left'
OnLeft ==
    /\ ContentHandled(videoElement, isSyncing, FALSE, lastSyncTime, syncTimers,
                      <<>>, [kind |-> "left"])
\* An advertisement starts or ends: isAdPlaying() changes its answer.
AdToggles ==
    /\ adPlaying' = ~adPlaying
    /\ outbox' = <<>>
    /\ event' = [kind |-> "ad"]
    /\ UNCHANGED <<videoElement, isSyncing, isInParty, lastSyncTime, syncTimers, clientNow,
                   workerVars, sessionVars, serverVars>>
\* Time passes in the client.
ClientTick ==
    /\ clientNow < ClockStart + MaxClientTicks * ClockStep
    /\ clientNow' = clientNow + ClockStep
    /\ outbox' = <<>>
    /\ event' = [kind |-> "tick"]
    /\ UNCHANGED <<videoElement, isSyncing, isInParty, lastSyncTime, syncTimers, adPlaying,
                   workerVars, sessionVars, serverVars>>

(***************************************************************************)
(* The client's background worker (popup.js, from line 379): one           *)
(* WebSocket variable, the reconnect timer and the keep-alive interval.    *)
(***************************************************************************)
Min(a, b) == IF a < b THEN a ELSE b
Live(i) == i # 0 /\ sockets[i] \in {"OPEN", "CONNECTING"}

\* scheduleReconnect: the delay of attempt number k
BackoffDelayMutNoCap(k) == 1000 * 2^k
BackoffDelay(k) == Min(1000 * 2^k, MAX_RECONNECT_DELAY)
\* scheduleReconnect, as the worker's reconnect state after it
Rescheduled ==
    IF reconnectTimeout # 0
    THEN [reconnectAttempts |-> reconnectAttempts, reconnectTimeout |-> reconnectTimeout,
          delay |-> delay]
    ELSE [reconnectAttempts |-> reconnectAttempts + 1,
          reconnectTimeout |-> BackoffDelay(reconnectAttempts),
          delay |-> BackoffDelay(reconnectAttempts)]
\* The counter is capped: a step that would count another attempt needs room.
CanReschedule == reconnectTimeout # 0 \/ reconnectAttempts < MaxAttempts

\* What a run of a worker handler leaves behind.
WorkerHandled(w, socks, pending, r, hb, out, ev) ==
    /\ ws' = w
    /\ sockets' = socks
    /\ pendingConnects' = pending
    /\ reconnectAttempts' = r.reconnectAttempts
    /\ reconnectTimeout' = r.reconnectTimeout
    /\ delay' = r.delay
    /\ heartbeatInterval' = hb
    /\ outbox' = out
    /\ event' = ev
    /\ UNCHANGED <<contentVars, sessionVars, serverVars>>
Reconnect == [reconnectAttempts |-> reconnectAttempts, reconnectTimeout |-> reconnectTimeout,
              delay |-> delay]

\* connect(), up to `await getServerUrl()`: the number of suspended calls
connect(pending) == IF Live(ws) THEN pending ELSE pending + 1
\* onMessage case 'connect', onStartup, onInstalled, the initial load
ConnectCalled ==
    /\ (Live(ws) \/ pendingConnects < MaxPending)
    /\ WorkerHandled(ws, sockets, connect(pendingConnects), Reconnect, heartbeatInterval,
                     <<>>, [kind |-> "connect"])
\* connect(), from `await getServerUrl()` on: new WebSocket(serverUrl), or
\* the constructor throws and the catch block schedules a reconnect
ConnectResumed ==
    /\ pendingConnects > 0
    /\ \/ /\ Len(sockets) < MaxSockets
          /\ WorkerHandled(Len(sockets) + 1, Append(sockets, "CONNECTING"),
                           pendingConnects - 1, Reconnect, heartbeatInterval,
                           <<>>, [kind |-> "socket", socket |-> Len(sockets) + 1])
       \/ /\ CanReschedule
          /\ WorkerHandled(ws, sockets, pendingConnects - 1, Rescheduled, heartbeatInterval,
                           <<>>, [kind |-> "throw"])
\* ws.onopen of socket i
SocketOpens(i) ==
    /\ i \in DOMAIN sockets
    /\ sockets[i] = "CONNECTING"
    /\ WorkerHandled(ws, [sockets EXCEPT ![i] = "OPEN"], pendingConnects,
                     [reconnectAttempts |-> 0, reconnectTimeout |-> reconnectTimeout,
                      delay |-> delay],
                     1, <<>>, [kind |-> "open", socket |-> i])
\* ws.onclose of socket i: the connection failed, was lost or was closed
SocketCloses(i) ==
    /\ i \in DOMAIN sockets
    /\ sockets[i] # "CLOSED"
    /\ CanReschedule
    /\ WorkerHandled(ws, [sockets EXCEPT ![i] = "CLOSED"], pendingConnects, Rescheduled,
                     0, <<>>, [kind |-> "close", socket |-> i])
\* disconnect()
disconnect ==
    /\ WorkerHandled(0,
                     IF Live(ws) THEN [sockets EXCEPT ![ws] = "CLOSING"] ELSE sockets,
                     pendingConnects,
                     [reconnectAttempts |-> reconnectAttempts, reconnectTimeout |-> 0,
                      delay |-> delay],
                     IF ws # 0 THEN 0 ELSE heartbeatInterval,
                     <<>>, [kind |-> "disconnect"])
\* The callback of scheduleReconnect's setTimeout
ReconnectTimerFires ==
    /\ reconnectTimeout # 0
    /\ (Live(ws) \/ pendingConnects < MaxPending)
    /\ WorkerHandled(ws, sockets, connect(pendingConnects),
                     [reconnectAttempts |-> reconnectAttempts, reconnectTimeout |-> 0,
                      delay |-> delay],
                     heartbeatInterval, <<>>, [kind |-> "reconnect"])
\* The callback of startHeartbeat's setInterval
HeartbeatFires ==
    /\ heartbeatInterval # 0
    /\ WorkerHandled(ws, sockets, pendingConnects, Reconnect, heartbeatInterval,
                     IF ws # 0 /\ sockets[ws] = "OPEN" THEN <<[type |-> "ping"]>> ELSE <<>>,
                     [kind |-> "heartbeat"])

(***************************************************************************)
(* Browsers and the server together.  A browser's worker talks to the      *)
(* server over a connection; a frame written on one side is in flight      *)
(* until the other side's handler takes it, in the order written.  An      *)
(* environment E names the requests the popup makes and the video the page *)
(* shows.                                                                  *)
(***************************************************************************)
\* The messages of the frames addressed to connection c, in order
Inbound(frames, c) ==
    LET mine == SelectSeq(frames, LAMBDA f : f.to = c)
    IN [i \in 1..Len(mine) |-> mine[i].msg]
\* ws.send on the server's side: the messages join the recipients' downlinks
Posted(D, frames) == [c \in ConnIds |-> D[c] \o Inbound(frames, c)]
\* sendToServer(message) of a worker whose open socket is connection up
\* (0: ws is null or not open, nothing is sent)
sendToServer(U, up, message) ==
    IF up # 0 THEN [U EXCEPT ![up] = Append(@, message)] ELSE U
\* The frames in flight on every connection are capped.
Fits(U, D) == \A c \in ConnIds : Len(U[c]) <= MaxInFlight /\ Len(D[c]) <= MaxInFlight

\* ws.on('message') of connection c, for the frame at the head of its uplink
Served(c) ==
    /\ readyState[c] = "OPEN"
    /\ uplink[c] # <<>>
    /\ \E partyCode \in generatePartyCode :
         LET message == Head(uplink[c])
             o == CASE message.type = "create-party" ->
                         CreatePartyCase(c, message.username, message.password,
                                         message.persistent, partyCode)
                    [] message.type = "join" ->
                         JoinCase(c, message.partyCode, message.username, message.password)
                    [] message.type = "leave" -> LeaveCase(c)
                    [] message.type = "sync" -> SyncCase(c, message.action, message.data)
                    [] message.type = "video-info" -> VideoInfoCase(c, message.data)
         IN /\ Fits(uplink, Posted(downlink, o.out))
            /\ ServerHandled(c, o.parties, o.cur, o.un, o.out,
                             [kind |-> message.type, from |-> c])
            /\ uplink' = [uplink EXCEPT ![c] = Tail(@)]
            /\ downlink' = Posted(downlink, o.out)
            /\ UNCHANGED <<contentVars, workerVars, outbox, event, tabs, storage>>

\* What a run of a handler of browser b leaves behind.
BrowserHandled(T, S, U, D, ev) ==
    /\ Fits(U, D)
    /\ tabs' = T
    /\ storage' = S
    /\ uplink' = U
    /\ downlink' = D
    /\ outbox' = <<>>
    /\ event' = ev
    /\ UNCHANGED <<contentVars, workerVars, serverVars>>

\* The worker's onMessage cases 'create-party', 'join-party', 'leave-party':
\* a request of the popup is sent to the server
Requested(b, up, E) ==
    /\ up # 0
    /\ \E message \in E.requests :
         BrowserHandled(tabs, storage, sendToServer(uplink, up, message), downlink,
                        [kind |-> "request", browser |-> b, type |-> message.type])

\* sendVideoInfo, through the worker's onMessage case 'video-info'
VideoInfoMessage(E) == [type |-> "video-info", data |-> E.video]
\* Into(S, b, partyCode): chrome.storage.local.set({partyCode, inParty: true})
Into(S, b, partyCode) == [S EXCEPT ![b] = [partyCode |-> partyCode, inParty |-> TRUE]]
\* applySyncEvent in a tab where no advertisement plays; the native event the
\* mutation fires finds isSyncing set and its handler returns
Applied(tab, action, data) ==
    [tab EXCEPT !.videoElement = Mutated(@, action, data),
                !.isSyncing = TRUE,
                !.syncTimers = @ \cup {clientNow + SYNC_COOLDOWN}]
\* ws.onmessage of the worker of browser b for the frame at the head of the
\* downlink of connection c, with the content script's onMessage for what
\* the worker forwards to the tab
Delivered(b, c, up, E) ==
    /\ downlink[c] # <<>>
    /\ LET message == Head(downlink[c])
           D == [downlink EXCEPT ![c] = Tail(@)]
           ev == [kind |-> "message", browser |-> b, type |-> message.type]
       IN CASE message.type = "party-created" ->
                 BrowserHandled(tabs, Into(storage, b, message.partyCode), uplink, D, ev)
            [] message.type = "joined" ->
                 BrowserHandled([tabs EXCEPT ![b].isInParty = TRUE],
                                Into(storage, b, message.partyCode),
                                sendToServer(uplink, up, VideoInfoMessage(E)), D, ev)
            [] message.type = "left" ->
                 BrowserHandled([tabs EXCEPT ![b].isInParty = FALSE],
                                [storage EXCEPT ![b] = [partyCode |-> NULL, inParty |-> FALSE]],
                                uplink, D, ev)
            [] message.type = "sync" ->
                 BrowserHandled([tabs EXCEPT ![b] = Applied(@, message.action, message.data)],
                                storage, uplink, D, ev)
            [] OTHER -> BrowserHandled(tabs, storage, uplink, D, ev)

\* checkPartyStatus: the worker's answer to 'get-status' reaches a content
\* script that has just loaded
checkPartyStatus(b, up, E) ==
    /\ tabs[b] = FreshTab
    /\ storage[b].inParty
    /\ BrowserHandled([tabs EXCEPT ![b].isInParty = TRUE], storage,
                      sendToServer(uplink, up, VideoInfoMessage(E)), downlink,
                      [kind |-> "status", browser |-> b])

\* handlePlay / handlePause: the user of browser b plays the paused video or
\* pauses the playing one
Toggled(b, up) ==
    LET tab == tabs[b]
        action == IF tab.videoElement.paused THEN "play" ELSE "pause"
        drops == tab.isSyncing \/ ~tab.isInParty
                 \/ clientNow - tab.lastSyncTime < SYNC_COOLDOWN
        ev == [kind |-> "native", browser |-> b, action |-> action, dropped |-> drops]
    IN \E video \in Fired(tab.videoElement, action, [positions |-> {}, rates |-> {}]) :
         IF drops
         THEN BrowserHandled([tabs EXCEPT ![b].videoElement = video],
                             storage, uplink, downlink, ev)
         ELSE BrowserHandled([tabs EXCEPT ![b].videoElement = video,
                                          ![b].lastSyncTime = clientNow],
                             storage,
                             sendToServer(uplink, up,
                                          [type |-> "sync", action |-> action,
                                           data |-> SyncEventData(action, video)]),
                             downlink, ev)

\* The callback of applySyncEvent's setTimeout in the tab of browser b
TabTimerFires(b) ==
    \E due \in tabs[b].syncTimers :
        /\ clientNow >= due
        /\ BrowserHandled([tabs EXCEPT ![b].isSyncing = FALSE,
                                       ![b].syncTimers = @ \ {due}],
                          storage, uplink, downlink,
                          [kind |-> "timer", browser |-> b, due |-> due])

\* The handlers that change who is in which party, with the clients' inputs
\* drawn from E.
Membership(E) ==
    \/ \E c \in ConnIds : Connect(c)
    \/ \E c \in ConnIds : CreateParty(c, E)
    \/ \E c \in ConnIds : Join(c, E)
    \/ \E c \in ConnIds : Leave(c)
    \/ \E c \in ConnIds : BeginClose(c)
    \/ \E c \in ConnIds : OnClose(c)
\* The handlers that relay to the sender's party.
Relay(E) ==
    \/ \E c \in ConnIds : Sync(c)
    \/ \E c \in ConnIds : VideoInfo(c, E)

\* Membership and relay, in runs in which the clock stays within one sample
\* (so that the reaper, whatever it finds, deletes nothing).
Next == Membership(CoreEnv) \/ Relay(CoreEnv)
Spec == Init /\ [][Next]_vars

\* Passwords: clients create protected and open parties and join them with
\* the right, a wrong, a missing and a non-string password.
PasswordEnv ==
    [usernames |-> {"ann"},
     createPasswords |-> {UNDEF, "p1", NONSTRING},
     joinPasswords |-> {UNDEF, "p1", "p2", NONSTRING},
     persistent |-> {FALSE},
     data |-> {}]
NextPassword == Membership(PasswordEnv)
SpecPassword == Init /\ [][NextPassword]_vars

\* Idle expiry: persistent and non-persistent parties, the clock advances
\* and the reaper runs.
IdleEnv ==
    [usernames |-> {"ann"},
     createPasswords |-> {UNDEF},
     joinPasswords |-> {UNDEF},
     persistent |-> BOOLEAN,
     data |-> {}]
NextIdle == Membership(IdleEnv) \/ Reaper \/ Tick
SpecIdle == Init /\ [][NextIdle]_vars
\* Shared video: clients report different videos, a descriptor with an empty
\* url and a video-info without data.
VideoEnv ==
    [usernames |-> {"ann"},
     createPasswords |-> {UNDEF},
     joinPasswords |-> {UNDEF},
     persistent |-> {FALSE},
     data |-> {[url |-> u] : u \in Urls \cup {""}} \cup {UndefVideo}]
NextVideo == Membership(VideoEnv) \/ Relay(VideoEnv)
SpecVideo == Init /\ [][NextVideo]_vars

\* Display names: clients name themselves differently from message to message
\* and relay sync events.
NamesEnv ==
    [usernames |-> {"ann", "bob"},
     createPasswords |-> {UNDEF},
     joinPasswords |-> {UNDEF},
     persistent |-> {FALSE},
     data |-> {}]
NextNames == Membership(NamesEnv) \/ \E c \in ConnIds : Sync(c)
SpecNames == Init /\ [][NextNames]_vars

\* The wire: besides the membership messages and sync, clients send frames
\* that do not parse, messages of an unknown type and keep-alive pings.
WireEnv ==
    [usernames |-> {"ann"},
     createPasswords |-> {UNDEF},
     joinPasswords |-> {UNDEF},
     persistent |-> {FALSE},
     data |-> {}]
NextWire ==
    \/ Membership(WireEnv)
    \/ \E c \in ConnIds : Sync(c)
    \/ \E c \in ConnIds : Malformed(c)
    \/ \E c \in ConnIds : UnknownType(c)
    \/ \E c \in ConnIds : Ping(c)
SpecWire == Init /\ [][NextWire]_vars

\* The liveness monitor: clients never close by themselves; they answer the
\* server's probes or not, and send keep-alive pings.  The heartbeat timer
\* keeps firing and a 'close' event, once due, is emitted.
LiveEnv ==
    [usernames |-> {"ann"},
     createPasswords |-> {UNDEF},
     joinPasswords |-> {UNDEF},
     persistent |-> {FALSE},
     data |-> {}]
NextLive ==
    \/ \E c \in ConnIds : Connect(c)
    \/ \E c \in ConnIds : CreateParty(c, LiveEnv)
    \/ \E c \in ConnIds : Join(c, LiveEnv)
    \/ \E c \in ConnIds : Leave(c)
    \/ \E c \in ConnIds : Ping(c)
    \/ \E c \in ConnIds : Pong(c)
    \/ Heartbeat
    \/ \E c \in ConnIds : OnClose(c)
SpecLive ==
    /\ Init /\ [][NextLive]_vars
    /\ WF_vars(Heartbeat)
    /\ \A c \in ConnIds : WF_vars(OnClose(c))

\* The same, with the timers' scheduling: the hourly reaper keeps firing, the
\* clock keeps advancing and a 'close' event, once due, is emitted.
SpecIdleFair ==
    /\ Init /\ [][NextIdle]_vars
    /\ WF_vars(Reaper)
    /\ WF_vars(Tick)
    /\ \A c \in ConnIds : WF_vars(OnClose(c))

\* The content script's timing: remote events, native events, the flag's
\* timers and the clock; one position and one rate.
TimingEnv == [positions |-> {0}, rates |-> {1}]
NextSync ==
    \/ RemoteSync(TimingEnv)
    \/ NativeEvent(TimingEnv)
    \/ SyncTimerFires
    \/ OnJoined
    \/ OnLeft
    \/ AdToggles
    \/ ClientTick
SpecSync == Init /\ [][NextSync]_vars

\* The content script's drift policy: remote and native events over several
\* positions and rates, at one clock value.
DriftEnv == [positions |-> {0, 500, 1500, 2500}, rates |-> {1, 2}]
NextDrift ==
    \/ RemoteSync(DriftEnv)
    \/ NativeEvent(DriftEnv)
    \/ OnJoined
    \/ OnLeft
    \/ AdToggles
SpecDrift == Init /\ [][NextDrift]_vars

\* The background worker: connecting, sockets opening and closing,
\* disconnecting, the reconnect timer and the keep-alive timer.
NextReconnect ==
    \/ ConnectCalled
    \/ ConnectResumed
    \/ \E i \in 1..MaxSockets : SocketOpens(i)
    \/ \E i \in 1..MaxSockets : SocketCloses(i)
    \/ disconnect
    \/ ReconnectTimerFires
    \/ HeartbeatFires
SpecReconnect == Init /\ [][NextReconnect]_vars

\* A party of browsers: every browser holds one connection, which stays
\* open; the popups create and join parties, the tabs show the same video.
PartyEnv ==
    [requests |-> {[type |-> "create-party", username |-> "ann", password |-> UNDEF,
                    persistent |-> FALSE]}
                  \cup {[type |-> "join", partyCode |-> code, username |-> "ann",
                         password |-> UNDEF] : code \in Codes},
     video |-> [url |-> "u1"]]
\* The connection of browser b's worker, once the server has accepted it
Online(b) == IF readyState[b] = "OPEN" THEN b ELSE 0
\* All browsers are participants of one party, which is the current party of
\* each of their connections.
Together ==
    \E code \in DOMAIN parties :
        /\ ParticipantIds(parties[code]) = ConnIds
        /\ \A c \in ConnIds : readyState[c] = "OPEN" /\ currentPartyCode[c] = code
\* The handler of a native event of browser b would send it.
Sends(b) ==
    /\ tabs[b].isInParty
    /\ ~tabs[b].isSyncing
    /\ clientNow - tabs[b].lastSyncTime >= SYNC_COOLDOWN
\* The popup offers to create or join a party while the stored state says
\* the browser is in none; the user waits for the answer to a request.
PopupRequests(b) ==
    /\ ~storage[b].inParty
    /\ uplink[b] = <<>> /\ downlink[b] = <<>>
    /\ Requested(b, Online(b), PartyEnv)
\* Time passes in the browsers, a whole cooldown at a time; the clock matters
\* from the moment the party is complete.
PartyTick ==
    /\ Together
    /\ clientNow + SYNC_COOLDOWN <= ClockStart + MaxClientTicks * ClockStep
    /\ clientNow' = clientNow + SYNC_COOLDOWN
    /\ outbox' = <<>>
    /\ event' = [kind |-> "tick"]
    /\ UNCHANGED <<videoElement, isSyncing, isInParty, lastSyncTime, syncTimers, adPlaying,
                   workerVars, sessionVars, serverVars>>
PartySteps ==
    \/ \E c \in ConnIds : Connect(c)
    \/ \E b \in Browsers : PopupRequests(b)
    \/ \E c \in ConnIds : Served(c)
    \/ \E b \in Browsers : Delivered(b, b, Online(b), PartyEnv)
    \/ \E b \in Browsers : checkPartyStatus(b, Online(b), PartyEnv)
    \/ \E b \in Browsers : TabTimerFires(b)
    \/ PartyTick

\* One participant acts: while the browsers are together in a party, the user
\* of one browser, whose tab knows it is in the party, plays and pauses at any
\* spacing; nobody else touches a player.
Actor == 1
ActorToggles == Together /\ tabs[Actor].isInParty /\ Toggled(Actor, Online(Actor))
NextSolo == PartySteps \/ ActorToggles
SpecSolo == Init /\ [][NextSolo]_vars

\* Everybody acts, but only when the handler sends the event: at least one
\* cooldown after the tab's last outbound event and not while the tab is
\* applying a remote one.
SentToggle(b) == Together /\ Sends(b) /\ Toggled(b, Online(b))
NextCross == PartySteps \/ \E b \in Browsers : SentToggle(b)
SpecCross == Init /\ [][NextCross]_vars

\* A session of one browser: its worker connects, loses its sockets and
\* reconnects; socket i of the worker is connection i of the server.  The
\* popup offers to create or join while the stored state says the browser is
\* in no party, and to leave while it says it is in one.
Self == 1
LobbyEnv ==
    [requests |-> {[type |-> "create-party", username |-> "ann", password |-> UNDEF,
                    persistent |-> FALSE]}
                  \cup {[type |-> "join", partyCode |-> code, username |-> "ann",
                         password |-> UNDEF] : code \in Codes},
     video |-> [url |-> "u1"]]
InPartyEnv == [requests |-> {[type |-> "leave"]}, video |-> [url |-> "u1"]]
SessionEnv == IF storage[Self].inParty THEN InPartyEnv ELSE LobbyEnv
\* The connection sendToServer writes on: ws, if it is open
Sending == IF ws # 0 /\ sockets[ws] = "OPEN" THEN ws ELSE 0
\* The worker's initial connect(); every later call comes from the reconnect timer
Started == sockets = <<>> /\ pendingConnects = 0 /\ ConnectCalled
\* new WebSocket(serverUrl) does not throw; the server has room for the connection
Dialled == Len(sockets) < MaxConns /\ ConnectResumed /\ event'.kind = "socket"
\* A request of the popup; the user waits for the answer to the last one
SessionRequests ==
    /\ Sending # 0
    /\ uplink[Sending] = <<>> /\ downlink[Sending] = <<>>
    /\ Requested(Self, Sending, SessionEnv)
\* The server accepts socket i of the worker.
Accepted(i) == i \in DOMAIN sockets /\ sockets[i] = "CONNECTING" /\ Connect(i)
\* ws.onopen of socket i, after the server has accepted it
Opened(i) == readyState[i] # "NONE" /\ SocketOpens(i)
\* ws.onmessage of socket i, which is open
Received(i) == i \in DOMAIN sockets /\ sockets[i] = "OPEN" /\ Delivered(Self, i, Sending, SessionEnv)
NextSession ==
    \/ Started
    \/ Dialled
    \/ \E i \in ConnIds : Accepted(i)
    \/ \E i \in ConnIds : Opened(i)
    \/ \E i \in ConnIds : SocketCloses(i)
    \/ ReconnectTimerFires
    \/ \E c \in ConnIds : BeginClose(c)
    \/ \E c \in ConnIds : OnClose(c)
    \/ SessionRequests
    \/ \E c \in ConnIds : Served(c)
    \/ \E i \in ConnIds : Received(i)
SpecSession == Init /\ [][NextSession]_vars

(***************************************************************************)
(* Vocabulary of the claims.                                               *)
(***************************************************************************)
\* The parties in whose participant map connection c appears.
PartiesOf(P, c) == {code \in DOMAIN P : c \in ParticipantIds(P[code])}
\* The frames of the last handler / of the handler of this step.
Frames == Range(sent)
FramesNext == Range(sent')
\* This step ran parties.set(code, <a new party object>).
CreatedAt(code) ==
    \E f \in FramesNext : f.msg.type = "party-created" /\ f.msg.partyCode = code
\* This step took the party that code named out of the registry.
RemovedAt(code) ==
    /\ code \in DOMAIN parties
    /\ code \notin DOMAIN parties' \/ CreatedAt(code)
OpenParticipants(P, rs, code) == {c \in ParticipantIds(P[code]) : rs[c] = "OPEN"}

(***************************************************************************)
(* C1.  Each connection is a participant of at most one party: no          *)
(* connection id appears in the participant maps of two different parties. *)
(***************************************************************************)
C1_AtMostOneParty ==
    \A c \in ConnIds : Cardinality(PartiesOf(parties, c)) <= 1

(***************************************************************************)
(* C2.  create-party yields a code that differs from the code of every     *)
(* party live at that moment, so it never replaces an existing party.      *)
(***************************************************************************)
C2_CreateYieldsFreshCode ==
    [][\A code \in Codes : CreatedAt(code) => code \notin DOMAIN parties]_vars

(***************************************************************************)
(* C3.  A party that has one or more participants is never removed from    *)
(* the registry: whatever operation removes a party, the party's           *)
(* participant set is empty at that moment.                                *)
(***************************************************************************)
\* The participant that this step's handler takes out of the party named code
\* before it cleans up (leave, join and close do participants.delete first).
Departing(code) ==
    {c \in ConnIds : /\ last'.from = c
                     /\ last'.kind \in {"leave", "join", "close"}
                     /\ currentPartyCode[c] = code}
C3_NoRemovalWithParticipants ==
    [][\A code \in DOMAIN parties :
         RemovedAt(code) => ParticipantIds(parties[code]) \subseteq Departing(code)]_vars

(***************************************************************************)
(* C4.  A join that names a live party and passes its password check       *)
(* always succeeds: the sender receives `joined` with a list that contains *)
(* itself, and is afterwards a participant of that party and of no other.  *)
(***************************************************************************)
JoinAdmissible ==
    /\ last'.kind = "join"
    /\ last'.partyCode \in DOMAIN parties
    /\ LET h == parties[last'.partyCode].passwordHash
       IN h = NullHash \/ h = <<"sha256", last'.password>>
C4_AdmissibleJoinSucceeds ==
    [][JoinAdmissible =>
         LET c == last'.from
             code == last'.partyCode
         IN /\ \E f \in FramesNext :
                 /\ f.to = c
                 /\ f.msg.type = "joined"
                 /\ f.msg.partyCode = code
                 /\ Len(f.msg.participants) >= 1
            /\ PartiesOf(parties', c) = {code}]_vars

(***************************************************************************)
(* C5.  A join to a password-protected party with a non-matching or        *)
(* missing password always produces an `error` reply and changes no        *)
(* party's membership: the sender is not added to the target party and     *)
(* stays a participant of the party it was in.                             *)
(***************************************************************************)
MembershipOf(P) == [code \in DOMAIN P |-> P[code].participants]
\* The join handled in this step names a protected party and carries a
\* password whose digest is not the stored one (or none).
WrongPasswordJoin ==
    /\ last'.kind = "join"
    /\ last'.partyCode \in DOMAIN parties
    /\ parties[last'.partyCode].passwordHash # NullHash
    /\ parties[last'.partyCode].passwordHash # <<"sha256", last'.password>>
C5_WrongPasswordRejected ==
    [][WrongPasswordJoin =>
         /\ \E f \in FramesNext : f.to = last'.from /\ f.msg.type = "error"
         /\ \A f \in FramesNext : f.msg.type # "joined"
         /\ DOMAIN parties' = DOMAIN parties
         /\ MembershipOf(parties') = MembershipOf(parties)]_vars
\* A member of one party was refused by another, protected party for a wrong
\* password and is still where it was.
C5_Witness ==
    /\ last.kind = "join"
    /\ last.password = "p2"
    /\ last.partyCode \in DOMAIN parties
    /\ parties[last.partyCode].passwordHash = <<"sha256", "p1">>
    /\ \E f \in Frames : f.to = last.from /\ f.msg.type = "error"
    /\ currentPartyCode[last.from] \in DOMAIN parties
    /\ currentPartyCode[last.from] # last.partyCode
    /\ PartiesOf(parties, last.from) = {currentPartyCode[last.from]}

(***************************************************************************)
(* C6.  A relayed `sync` message is never delivered to the connection that *)
(* sent it, whatever the membership and whatever preceded.                 *)
(***************************************************************************)
C6_SyncNeverEchoed ==
    \A f \in Frames : f.msg.type = "sync" => f.to # last.from
\* A participant's sync was relayed to the other open participant of its
\* two-member party.
C6_Witness ==
    /\ last.kind = "sync"
    /\ currentPartyCode[last.from] \in DOMAIN parties
    /\ last.from \in OpenParticipants(parties, readyState, currentPartyCode[last.from])
    /\ Cardinality(OpenParticipants(parties, readyState, currentPartyCode[last.from])) = 2
    /\ \E f \in Frames : f.msg.type = "sync" /\ f.to # last.from

(***************************************************************************)
(* C7.  A `sync` message sent by a participant is delivered to exactly the *)
(* open participants of the sender's current party other than the sender,  *)
(* with `action` and `data` unchanged, and never to a connection whose own *)
(* current party is a different party or no party.                         *)
(***************************************************************************)
SyncRecipients == {f.to : f \in {g \in FramesNext : g.msg.type = "sync"}}
C7_SyncReachesOwnPartyOnly ==
    [][(last'.kind = "sync" /\ currentPartyCode[last'.from] \in DOMAIN parties) =>
         LET c == last'.from
             cur == currentPartyCode[c]
         IN /\ SyncRecipients = OpenParticipants(parties, readyState, cur) \ {c}
            /\ \A f \in FramesNext :
                 f.msg.type = "sync" =>
                   f.msg.action = last'.action /\ f.msg.data = last'.data
            /\ \A r \in SyncRecipients : currentPartyCode[r] = cur]_vars

(***************************************************************************)
(* C8.  After every membership change of a party and after every accepted  *)
(* video-info, every open participant of that party (the connection that   *)
(* caused the change included, when it is still a participant) is sent a   *)
(* `participants` message listing exactly the party's participants at that *)
(* moment.                                                                 *)
(***************************************************************************)
\* list is the participant list of party: one entry per participant, in
\* order, with the participant's name and video.
ListsExactly(list, party) ==
    /\ Len(list) = Len(party.participants)
    /\ \A i \in 1..Len(list) :
         /\ list[i].username = party.participants[i].username
         /\ list[i].videoUrl = party.participants[i].videoUrl
ToldParticipants(c, party) ==
    \E f \in FramesNext :
        /\ f.to = c
        /\ f.msg.type = "participants"
        /\ ListsExactly(f.msg.participants, party)
\* The party that code names lives on through this step with a changed
\* participant map.
MembershipChanged(code) ==
    /\ code \in DOMAIN parties
    /\ code \in DOMAIN parties'
    /\ ~CreatedAt(code)
    /\ parties'[code].participants # parties[code].participants
\* This step handled a video-info that the server did not answer with error.
VideoInfoAccepted(code) ==
    /\ last'.kind = "video-info"
    /\ code = currentPartyCode[last'.from]
    /\ code \in DOMAIN parties
    /\ ~\E f \in FramesNext : f.msg.type = "error"
C8_ParticipantsBroadcast ==
    [][\A code \in Codes :
         (MembershipChanged(code) \/ VideoInfoAccepted(code)) =>
           \A c \in OpenParticipants(parties', readyState', code) :
               ToldParticipants(c, parties'[code])]_vars
\* A second connection has joined a party whose other member is open: both
\* were sent the two-entry list.
C8_Witness ==
    /\ last.kind = "join"
    /\ \E code \in DOMAIN parties :
         /\ Len(parties[code].participants) = 2
         /\ \A c \in ParticipantIds(parties[code]) : readyState[c] = "OPEN"
         /\ Cardinality({f \in Frames : /\ f.msg.type = "participants"
                                        /\ Len(f.msg.participants) = 2}) = 2

(***************************************************************************)
(* C9.  Whenever the last participant of a non-persistent party leaves,    *)
(* switches to another party or disconnects, the party is deleted in the   *)
(* same step; no state between handlers holds a non-persistent party with  *)
(* zero participants.                                                      *)
(***************************************************************************)
\* Connection c, the only participant of the party named code, leaves it,
\* moves to another party or disconnects in this step.
LastParticipantGoes(c, code) ==
    /\ code \in DOMAIN parties
    /\ ~parties[code].persistent
    /\ ParticipantIds(parties[code]) = {c}
    /\ last'.from = c
    /\ \/ last'.kind = "leave"
       \/ last'.kind = "close"
       \/ /\ last'.kind \in {"join", "create-party"}
          /\ currentPartyCode'[c] \in DOMAIN parties'
          /\ currentPartyCode'[c] # code \/ CreatedAt(code)
NoEmptyNonPersistent(P) ==
    \A code \in DOMAIN P : ~P[code].persistent => Len(P[code].participants) > 0
C9_LastOneOutDeletes ==
    [][/\ \A c \in ConnIds, code \in Codes :
            LastParticipantGoes(c, code) => RemovedAt(code)
       /\ NoEmptyNonPersistent(parties')]_vars

(***************************************************************************)
(* C10.  A persistent party whose participant count reached zero is not    *)
(* deleted by any operation until more than 24 hours of emptiness have     *)
(* elapsed (the window starts at lastActivity, which the server stamps     *)
(* when the party becomes empty and a join stamps again).                  *)
(***************************************************************************)
C10_PersistentSurvivesIdleWindow ==
    [][\A code \in DOMAIN parties :
         (/\ parties[code].persistent
          /\ Len(parties[code].participants) = 0
          /\ RemovedAt(code))
         => now' - parties[code].lastActivity > PARTY_IDLE_TIMEOUT]_vars

(***************************************************************************)
(* C11.  A persistent party that has had no open participant connection    *)
(* for more than 24 hours is deleted by the next run of the idle reaper:   *)
(* with the reaper and the clock running, every persistent party that all  *)
(* its members have left or disconnected from is eventually deleted,       *)
(* unless somebody joins it again.                                         *)
(***************************************************************************)
\* No connection of the party named code is open or closing (its members have
\* left it or are disconnected).
Abandoned(code) ==
    /\ code \in DOMAIN parties
    /\ parties[code].persistent
    /\ \A c \in ParticipantIds(parties[code]) : readyState[c] = "CLOSED"
\* No live connection still holds code as its current party (the leave or
\* close of such a connection would stamp lastActivity again).
NoHandleOn(code) ==
    \A c \in ConnIds : readyState[c] \in {"OPEN", "CLOSING"} => currentPartyCode[c] # code
\* The clock of the run can still advance by more than one idle window.
WindowAhead == now + 2 * TickMs <= MaxTicks * TickMs
\* The party is gone, or a live connection is a participant of it again.
DeletedOrRejoined(code) ==
    \/ code \notin DOMAIN parties
    \/ \E c \in ParticipantIds(parties[code]) : readyState[c] # "CLOSED"
C11_AbandonedPartyReaped ==
    \A code \in Codes : (Abandoned(code) /\ NoHandleOn(code) /\ WindowAhead) ~> DeletedOrRejoined(code)

(***************************************************************************)
(* C12.  When a connection closes, its participant record is removed from  *)
(* its party, the remaining participants receive only a `participants`     *)
(* update and no `error`, and afterwards the closed connection's id        *)
(* appears in no party's participant map.                                  *)
(***************************************************************************)
C12_CloseRemovesEverywhere ==
    [][last'.kind = "close" =>
         /\ PartiesOf(parties', last'.from) = {}
         /\ \A f \in FramesNext : f.msg.type = "participants" /\ f.to # last'.from]_vars

(***************************************************************************)
(* C13.  After a participant sends video-info with a non-empty url U, the  *)
(* participant list reports synced = true for exactly the participants     *)
(* whose own reported videoUrl equals U and synced = false for all others, *)
(* including participants that have reported no video and participants     *)
(* that joined after the descriptor was set.                               *)
(***************************************************************************)
\* The party's shared descriptor carries a non-empty url.
HasUrl(party) ==
    /\ party.video \notin {NullVideo, UndefVideo}
    /\ Truthy(party.video.url)
\* list has one entry per participant of party, and an entry is synced
\* exactly when the participant's own videoUrl is U.
SyncedExactly(list, party, U) ==
    /\ Len(list) = Len(party.participants)
    /\ \A i \in 1..Len(list) :
         /\ list[i].videoUrl = party.participants[i].videoUrl
         /\ list[i].synced = (party.participants[i].videoUrl = U)
C13_SyncedIffSameUrl ==
    [][/\ (/\ last'.kind = "video-info"
           /\ last'.data # UndefVideo
           /\ Truthy(last'.data.url)
           /\ currentPartyCode[last'.from] \in DOMAIN parties)
          => LET c == last'.from
                 party == parties'[currentPartyCode[c]]
                 U == last'.data.url
             IN /\ party.video.url = U
                /\ \A i \in 1..Len(party.participants) :
                     party.participants[i].id = c => party.participants[i].videoUrl = U
                /\ \A f \in FramesNext :
                     f.msg.type = "participants" => SyncedExactly(f.msg.participants, party, U)
       /\ \A f \in FramesNext :
            (f.msg.type = "joined" /\ HasUrl(parties'[f.msg.partyCode]))
            => /\ SyncedExactly(f.msg.participants, parties'[f.msg.partyCode],
                                parties'[f.msg.partyCode].video.url)
               /\ \A i \in 1..Len(f.msg.participants) :
                    parties'[f.msg.partyCode].participants[i].id = f.to
                    => ~f.msg.participants[i].synced]_vars
\* A video-info with url U went to a party of two: the list sent out reports
\* one participant synced and the other, whose own video is a different one,
\* not synced.
C13_Witness ==
    /\ last.kind = "video-info"
    /\ \E f \in Frames :
         /\ f.msg.type = "participants"
         /\ Len(f.msg.participants) = 2
         /\ \E i, j \in 1..2 :
              /\ f.msg.participants[i].synced
              /\ f.msg.participants[i].videoUrl = last.data.url
              /\ ~f.msg.participants[j].synced
              /\ f.msg.participants[j].videoUrl \in Urls \ {last.data.url}

(***************************************************************************)
(* C14.  A `sync` message from a connection that is, at that moment, not a *)
(* participant of any live party is answered with an `error` and relayed   *)
(* to nobody, in every reachable state of the connection.                  *)
(***************************************************************************)
C14_SyncOutsidePartyRejected ==
    [][(last'.kind = "sync" /\ PartiesOf(parties, last'.from) = {}) =>
         /\ \E f \in FramesNext : f.to = last'.from /\ f.msg.type = "error"
         /\ \A f \in FramesNext : f.msg.type # "sync"]_vars

(***************************************************************************)
(* C15.  A `video-info` message from a connection that is not in a party   *)
(* is answered with an `error` and changes no party's shared video         *)
(* descriptor.                                                             *)
(***************************************************************************)
C15_VideoInfoOutsidePartyRejected ==
    [][(last'.kind = "video-info" /\ PartiesOf(parties, last'.from) = {}) =>
         /\ \E f \in FramesNext : f.to = last'.from /\ f.msg.type = "error"
         /\ DOMAIN parties' = DOMAIN parties
         /\ \A code \in DOMAIN parties : parties'[code].video = parties[code].video]_vars

(***************************************************************************)
(* C16.  A join with an unknown, empty, missing or malformed party code is *)
(* answered with `error` ('Party not found') and causes no state change:   *)
(* all parties and their memberships are as before, and the sender's own   *)
(* connection state (its current party and the display name attached to    *)
(* its later relayed messages) is as before.                               *)
(***************************************************************************)
C16_JoinUnknownChangesNothing ==
    [][(last'.kind = "join" /\ last'.partyCode \notin DOMAIN parties) =>
         /\ sent' = <<Frame(last'.from, ErrorMsg("Party not found"))>>
         /\ parties' = parties
         /\ currentPartyCode' = currentPartyCode
         /\ username' = username]_vars

(***************************************************************************)
(* C17.  An unparseable frame is answered with exactly one `error` to the  *)
(* sender, is relayed to nobody, changes no registry state, and leaves the *)
(* connection open and still a participant of its party, so that later     *)
(* well-formed messages from it are processed as before.                   *)
(***************************************************************************)
C17_MalformedIsolated ==
    [][last'.kind = "malformed" =>
         /\ sent' = <<Frame(last'.from, ErrorMsg("Invalid message format"))>>
         /\ parties' = parties
         /\ readyState' = readyState
         /\ readyState'[last'.from] = "OPEN"
         /\ currentPartyCode' = currentPartyCode
         /\ username' = username
         /\ isAlive' = isAlive]_vars
\* A participant of a party of two open connections sent an unparseable
\* frame: it got the error and both are still open participants.
C17_Witness ==
    /\ last.kind = "malformed"
    /\ sent = <<Frame(last.from, ErrorMsg("Invalid message format"))>>
    /\ currentPartyCode[last.from] \in DOMAIN parties
    /\ last.from \in OpenParticipants(parties, readyState, currentPartyCode[last.from])
    /\ Cardinality(OpenParticipants(parties, readyState, currentPartyCode[last.from])) = 2

(***************************************************************************)
(* C18.  leave removes the sender from its current party if any and always *)
(* replies `left`; a leave sent while not in a party changes no party      *)
(* state and sends nothing to other connections, so two consecutive leaves *)
(* leave the registry in the same state as one.                            *)
(***************************************************************************)
C18_LeaveIdempotent ==
    [][last'.kind = "leave" =>
         LET c == last'.from
             cur == currentPartyCode[c]
         IN \* the reply, and the removal from the current party
            /\ \E f \in FramesNext : f.to = c /\ f.msg.type = "left"
            /\ cur \in DOMAIN parties' => c \notin ParticipantIds(parties'[cur])
            \* a leave of a connection that is in no party
            /\ PartiesOf(parties, c) = {} =>
                 /\ parties' = parties
                 /\ \A f \in FramesNext : f.to = c
            \* a second leave, sent now, would leave the registry as it is
            /\ LeaveCurrent(parties', readyState', c, currentPartyCode'[c], now').parties
                  = parties']_vars

(***************************************************************************)
(* C19.  A connection that sends no liveness acknowledgment (pong) after a *)
(* server probe is terminated at the next probe tick, and that termination *)
(* runs the participant removal, `participants` broadcast and party        *)
(* cleanup of a close.                                                     *)
(***************************************************************************)
\* Connection c has been probed and has not acknowledged since.
Silent(c) == readyState[c] = "OPEN" /\ ~isAlive[c]
C19_SilentConnectionTerminated ==
    \* the next probe tick terminates it
    /\ [][last'.kind = "heartbeat" =>
            \A c \in ConnIds : Silent(c) => readyState'[c] = "CLOSING"]_vars
    \* the close that follows removes, broadcasts and cleans up
    /\ [][last'.kind = "close" =>
            LET c == last'.from
                done == LeaveCurrent(parties, readyState', c, currentPartyCode[c], now)
            IN /\ readyState'[c] = "CLOSED"
               /\ parties' = done.parties
               /\ sent' = done.out]_vars
    \* and it does follow, unless the connection acknowledges in time
    /\ \A c \in ConnIds : Silent(c) ~> (isAlive[c] \/ readyState[c] = "CLOSED")
\* The monitor has terminated a silent participant of a party of two: the
\* other participant, still open, was sent the list of one.
C19_Witness ==
    /\ last.kind = "close"
    /\ readyState[last.from] = "CLOSED"
    /\ ~isAlive[last.from]
    /\ currentPartyCode[last.from] \in DOMAIN parties
    /\ last.from \notin ParticipantIds(parties[currentPartyCode[last.from]])
    /\ \E f \in Frames :
         /\ f.to # last.from
         /\ readyState[f.to] = "OPEN"
         /\ f.msg.type = "participants"
         /\ Len(f.msg.participants) = 1

(***************************************************************************)
(* C20.  An application-level `ping` message is answered with `pong` to    *)
(* the sender only, changes no party state, and does not count as a        *)
(* liveness acknowledgment: a connection that keeps sending `ping` but     *)
(* never acknowledges server probes is still terminated by the liveness    *)
(* monitor.                                                                *)
(***************************************************************************)
C20_PingIsNoAcknowledgment ==
    /\ [][last'.kind = "ping" =>
            /\ sent' = <<Frame(last'.from, [type |-> "pong"])>>
            /\ parties' = parties
            /\ isAlive' = isAlive
            /\ readyState' = readyState]_vars
    \* nobody pings for ever without acknowledging probes again and again
    /\ \A c \in ConnIds :
         []<>(last.kind = "ping" /\ last.from = c)
            => []<>(last.kind = "pong" /\ last.from = c)
\* A probed connection that has not acknowledged sent a ping and got a pong;
\* it still counts as silent.
C20_Witness ==
    /\ last.kind = "ping"
    /\ Silent(last.from)
    /\ sent = <<Frame(last.from, [type |-> "pong"])>>


\* The suspend window of an applied remote event runs for SYNC_COOLDOWN from
\* its application; the timer of every window still running is pending.
InSuspendWindow == \E due \in syncTimers : clientNow < due

\* C21: after the client applies a remote sync event, every native player
\* callback fired during the suspend window produces no outbound sync
\* message.
C21_NoEchoInSuspendWindow ==
    [][(event'.kind = "native" /\ InSuspendWindow) => outbox' = <<>>]_vars

\* C22: for every remote event the client applies, the suspend-echo flag
\* stays set for at least the cooldown counted from that event's
\* application, also when several remote events are applied less than one
\* cooldown apart.
C22_FlagSetThroughWindow == InSuspendWindow => isSyncing

\* C23: a local player event on a client in a party produces exactly one
\* outbound sync message unless the suspend-echo flag is set or less than
\* the cooldown has passed since the last outbound event; in those two cases
\* it produces none and leaves the last-outbound timestamp unchanged.
C23_OutboundRule ==
    [][(event'.kind = "native" /\ isInParty) =>
         IF isSyncing \/ clientNow - lastSyncTime < SYNC_COOLDOWN
         THEN outbox' = <<>> /\ lastSyncTime' = lastSyncTime
         ELSE /\ Len(outbox') = 1
              /\ outbox'[1].type = "sync-event"
              /\ outbox'[1].action = event'.action]_vars

\* C24: a remote event changes the local playback position only if the
\* absolute difference between the local and the remote position exceeds the
\* drift tolerance, for every remote action.
WithinTolerance(local, remote, seconds) == Abs(local - remote) <= seconds * 1000
C24_PositionKeptWithinTolerance ==
    [][(/\ event'.kind = "sync"
        /\ event'.data.currentTime # NoNumber
        /\ WithinTolerance(videoElement.currentTime, event'.data.currentTime,
                           TIME_DRIFT_TOLERANCE))
       => videoElement'.currentTime = videoElement.currentTime]_vars

\* C29: the client seeks in response to a remote play or pause only if the
\* time difference exceeds 2 seconds.
C29_NoSeekWithinTwoSeconds ==
    [][(/\ event'.kind = "sync"
        /\ event'.action \in {"play", "pause"}
        /\ event'.data.currentTime # NoNumber
        /\ WithinTolerance(videoElement.currentTime, event'.data.currentTime, 2))
       => videoElement'.currentTime = videoElement.currentTime]_vars


\* C25: after the client's connection closes, reconnection attempts are
\* scheduled with delay min(1000 ms * 2^k, 30000 ms) for the k-th consecutive
\* attempt without a successful open: delays never decrease between
\* consecutive failed attempts, never exceed 30 s, and the attempt counter
\* returns to 0 only when a connection opens.
AttemptCounted == reconnectAttempts' = reconnectAttempts + 1
C25_ExponentialBackoff ==
    /\ [][event'.kind = "close" => reconnectTimeout' # 0]_vars
    /\ [][AttemptCounted =>
            /\ reconnectTimeout = 0
            /\ reconnectTimeout' = delay'
            /\ delay' = (IF 1000 * 2^reconnectAttempts < 30000
                         THEN 1000 * 2^reconnectAttempts ELSE 30000)]_vars
    /\ [][(reconnectTimeout' # reconnectTimeout /\ reconnectTimeout' # 0)
            => AttemptCounted]_vars
    /\ [][(AttemptCounted /\ reconnectAttempts > 0) => delay' >= delay]_vars
    /\ [](delay <= 30000 /\ reconnectTimeout <= 30000)
    /\ [][reconnectAttempts' < reconnectAttempts =>
            (event'.kind = "open" /\ reconnectAttempts' = 0)]_vars
C25_Witness ==
    /\ event.kind = "close"
    /\ reconnectAttempts = 6
    /\ reconnectTimeout = 30000
    /\ \E i \in DOMAIN sockets : sockets[i] = "OPEN"


\* The join handled in this step names an existing party / the sender got
\* `joined` for it and is one of its participants afterwards.
JoinTo(code) == last'.kind = "join" /\ last'.partyCode = code /\ code \in DOMAIN parties
JoinSucceeded(code) ==
    /\ \E f \in FramesNext :
         f.to = last'.from /\ f.msg.type = "joined" /\ f.msg.partyCode = code
    /\ code \in DOMAIN parties'
    /\ last'.from \in ParticipantIds(parties'[code])
\* This step created the party code with the password of the message: the
\* stored digest is that password's, or none for a missing (or empty) one.
CreationPasswordKept(code) ==
    IF CreatedAt(code)
    THEN parties'[code].passwordHash =
           (IF last'.password \in {UNDEF, ""} THEN NullHash ELSE <<"sha256", last'.password>>)
    ELSE code \in DOMAIN parties /\ code \in DOMAIN parties'
           => parties'[code].passwordHash = parties[code].passwordHash

\* C26: a join to a password-protected party succeeds if and only if the
\* supplied password equals the password given at creation (digests are
\* injective); a party created without a password accepts a join with any
\* password or none.
C26_JoinIffPasswordMatches ==
    [][\A code \in Codes :
         /\ CreationPasswordKept(code)
         /\ (JoinTo(code) =>
               IF parties[code].passwordHash = NullHash
               THEN JoinSucceeded(code)
               ELSE (JoinSucceeded(code)
                       <=> parties[code].passwordHash = <<"sha256", last'.password>>))]_vars


\* The connections that got a relayed `video-info` in this step.
VideoInfoRecipients == {f.to : f \in {g \in FramesNext : g.msg.type = "video-info"}}
\* The video-info handled in this step carries data and comes from a
\* participant of the party its connection is in.
VideoInfoFromParticipant ==
    /\ last'.kind = "video-info"
    /\ last'.data # UndefVideo
    /\ currentPartyCode[last'.from] \in DOMAIN parties
    /\ last'.from \in ParticipantIds(parties[currentPartyCode[last'.from]])

\* C27: a video-info from a participant sets the party's shared descriptor
\* to the message's data whoever wrote it before, sets the sender's own
\* videoUrl to data.url (none for an empty url), and is relayed as video-info
\* with the sender's username to every other open participant and not to the
\* sender; the descriptor of a party changes in no other way, so it always
\* equals the data of the most recently processed video-info.
C27_LastWriterWins ==
    [][/\ VideoInfoFromParticipant =>
            LET c == last'.from
                cur == currentPartyCode[c]
                party == parties'[cur]
            IN /\ party.video = last'.data
               /\ \A i \in 1..Len(party.participants) :
                    party.participants[i].id = c =>
                      IF Truthy(last'.data.url)
                      THEN party.participants[i].videoUrl = last'.data.url
                      ELSE ~Truthy(party.participants[i].videoUrl)
               /\ VideoInfoRecipients = OpenParticipants(parties, readyState, cur) \ {c}
               /\ \A f \in FramesNext :
                    f.msg.type = "video-info" =>
                      f.msg.data = last'.data /\ f.msg.username = username[c]
       /\ \A code \in Codes :
            (/\ code \in DOMAIN parties
             /\ code \in DOMAIN parties'
             /\ ~CreatedAt(code)
             /\ parties'[code].video # parties[code].video)
            => /\ last'.kind = "video-info"
               /\ currentPartyCode[last'.from] = code
               /\ parties'[code].video = last'.data]_vars
\* The second writer of a party of two: the other participant had reported
\* u1, the sender reported u2, the descriptor is the sender's and the other
\* participant got the relayed video-info.
C27_Witness ==
    /\ last.kind = "video-info"
    /\ last.data = [url |-> "u2"]
    /\ currentPartyCode[last.from] \in DOMAIN parties
    /\ LET party == parties[currentPartyCode[last.from]]
       IN /\ party.video = [url |-> "u2"]
          /\ Len(party.participants) = 2
          /\ \E i, j \in 1..2 :
               /\ party.participants[i].id = last.from
               /\ party.participants[i].videoUrl = "u2"
               /\ party.participants[j].videoUrl = "u1"
               /\ \E f \in Frames :
                    /\ f.to = party.participants[j].id
                    /\ f.msg.type = "video-info"
                    /\ f.msg.data = [url |-> "u2"]
          /\ \A f \in Frames : f.msg.type = "video-info" => f.to # last.from


\* The party that code names has a participant whose channel is not open.
DeadParticipants(code) == {d \in ParticipantIds(parties[code]) : readyState[d] # "OPEN"}
\* This step ran a handler that broadcasts.
Broadcasting == last'.kind \in {"sync", "video-info", "join", "leave", "close"}

\* C28: a broadcast to a party in which some participant's channel is not
\* open delivers nothing to that participant, now or later, still delivers
\* to every participant whose channel is open, and leaves the party's
\* membership unchanged: only the close event of the dead participant takes
\* it out.
C28_DeadRecipientSkipped ==
    [][/\ \A f \in FramesNext : readyState[f.to] = "OPEN" /\ readyState'[f.to] = "OPEN"
       /\ \A c \in ConnIds :
            readyState[c] \in {"CLOSING", "CLOSED"} => readyState'[c] # "OPEN"
       /\ \A code \in DOMAIN parties :
            DeadParticipants(code) # {} =>
              /\ (MembershipChanged(code) \/ VideoInfoAccepted(code)) =>
                   \A c \in OpenParticipants(parties', readyState', code) :
                       ToldParticipants(c, parties'[code])
              /\ (VideoInfoAccepted(code) /\ last'.data # UndefVideo) =>
                   VideoInfoRecipients
                     = OpenParticipants(parties, readyState, code) \ {last'.from}
              /\ (last'.kind = "sync" /\ currentPartyCode[last'.from] = code) =>
                   SyncRecipients
                     = OpenParticipants(parties, readyState, code) \ {last'.from}
              /\ Broadcasting =>
                   \A d \in DeadParticipants(code) :
                       \/ code \in DOMAIN parties' /\ d \in ParticipantIds(parties'[code])
                       \/ last'.kind = "close" /\ last'.from = d]_vars
\* A video-info went to a party of two whose other participant is closing:
\* the sender got the list with both entries, the closing participant got
\* nothing and is still a participant.
C28_Witness ==
    /\ last.kind = "video-info"
    /\ currentPartyCode[last.from] \in DOMAIN parties
    /\ LET party == parties[currentPartyCode[last.from]]
       IN /\ Len(party.participants) = 2
          /\ \E d \in ParticipantIds(party) : d # last.from /\ readyState[d] = "CLOSING"
          /\ \E f \in Frames :
               /\ f.to = last.from
               /\ f.msg.type = "participants"
               /\ Len(f.msg.participants) = 2
          /\ \A f \in Frames : f.to = last.from


\* C30: a well-formed message whose type is not one of the recognised
\* client-to-server types is answered with an `error` reply to the sender
\* and changes no state.
C30_UnknownTypeRejected ==
    [][last'.kind = "unknown" =>
         /\ \E f \in FramesNext : f.to = last'.from /\ f.msg.type = "error"
         /\ \A f \in FramesNext : f.to = last'.from
         /\ parties' = parties
         /\ readyState' = readyState
         /\ currentPartyCode' = currentPartyCode
         /\ username' = username
         /\ isAlive' = isAlive]_vars


(***************************************************************************)
(* C31.  A connection that acknowledges every server probe before the next *)
(* probe tick is never terminated by the liveness monitor, for any number  *)
(* of ticks and any interleaving of probes, acknowledgments and other      *)
(* messages.                                                               *)
(***************************************************************************)
\* Connection c is open and has acknowledged since the last probe (or has
\* not been probed yet).
Acknowledged(c) == readyState[c] = "OPEN" /\ isAlive[c]
C31_AcknowledgingConnectionKept ==
    \* a probe tick keeps every connection that has acknowledged
    /\ [][last'.kind = "heartbeat" =>
            \A c \in ConnIds : Acknowledged(c) => readyState'[c] = "OPEN"]_vars
    \* an acknowledgment counts, and only the next probe uses it up
    /\ [][\A c \in ConnIds :
            /\ (last'.kind = "pong" /\ last'.from = c) => Acknowledged(c)'
            /\ (Acknowledged(c) /\ last'.kind # "heartbeat") => Acknowledged(c)']_vars
    \* a connection is new with the acknowledgment set
    /\ [][\A c \in ConnIds :
            (last'.kind = "connection" /\ last'.from = c) => Acknowledged(c)']_vars
\* Connection 1, accepted before connection 2, has outlived the probe tick
\* that terminated connection 2: it was probed with it and acknowledged.
C31_Witness ==
    /\ last.kind = "heartbeat"
    /\ readyState[1] = "OPEN"
    /\ readyState[2] = "CLOSING"
    /\ currentPartyCode[1] \in DOMAIN parties


(***************************************************************************)
(* C32.  For every open connection, whenever its current-party             *)
(* back-reference is set, the party with that code exists and contains the *)
(* connection as a participant; whenever it is unset, the connection is in *)
(* no party.  This holds after any sequence of create-party, join, leave,  *)
(* video-info and close events, including creates that collide with a live *)
(* code and joins to the party the sender is already in.                   *)
(***************************************************************************)
C32_BackReferenceConsistent ==
    \A c \in ConnIds :
        readyState[c] = "OPEN" =>
            IF currentPartyCode[c] # NULL
            THEN /\ currentPartyCode[c] \in DOMAIN parties
                 /\ c \in ParticipantIds(parties[currentPartyCode[c]])
            ELSE PartiesOf(parties, c) = {}


(***************************************************************************)
(* C33.  The username carried by every relayed `sync` and `video-info`     *)
(* message equals the display name under which the sender is currently     *)
(* listed in its party's participant list, after any sequence of           *)
(* successful and failed joins by the sender.                              *)
(***************************************************************************)
\* The party that code names lists connection c under name.
ListedAs(P, code, c, name) ==
    /\ code \in DOMAIN P
    /\ \E i \in 1..Len(P[code].participants) :
         /\ P[code].participants[i].id = c
         /\ P[code].participants[i].username = name
C33_RelayedNameIsListedName ==
    [][\A f \in FramesNext :
         f.msg.type \in {"sync", "video-info"} =>
           ListedAs(parties', currentPartyCode[last'.from], last'.from, f.msg.username)]_vars


(***************************************************************************)
(* C34.  A message that is answered with the 'Invalid message format'      *)
(* error leaves the registry unchanged: in particular a `video-info`       *)
(* without a `data` payload sent by a participant does not alter or clear  *)
(* the party's shared video descriptor or any participant's videoUrl.      *)
(***************************************************************************)
C34_InvalidFormatChangesNothing ==
    [][(\E f \in FramesNext : f.msg = ErrorMsg("Invalid message format")) =>
         parties' = parties]_vars


(***************************************************************************)
(* C37.  The background worker holds at most one transport connection that *)
(* is open or connecting at any time, also when connect() is invoked       *)
(* concurrently from several triggers whose server-URL lookups interleave. *)
(***************************************************************************)
LiveSockets == {i \in DOMAIN sockets : sockets[i] \in {"OPEN", "CONNECTING"}}
C37_AtMostOneLiveSocket == Cardinality(LiveSockets) <= 1

(***************************************************************************)
(* C38.  Whenever the client's current transport connection is open, its   *)
(* keep-alive timer is running: no close event of an earlier socket,       *)
(* arriving after a newer socket has opened, stops the keep-alive of the   *)
(* newer connection.                                                       *)
(***************************************************************************)
C38_KeepAliveWhileOpen ==
    (ws # 0 /\ sockets[ws] = "OPEN") => heartbeatInterval # 0

(***************************************************************************)
(* C39.  After an explicit 'disconnect' request no reconnect timer is      *)
(* pending and the client opens no new connection until a 'connect'        *)
(* request (or another explicit connect trigger) arrives.                  *)
(***************************************************************************)
\* Stated for the step that follows a disconnect made while no connect() call
\* is suspended at its await.
C39_DisconnectStaysDisconnected ==
    /\ [](event.kind = "disconnect" => reconnectTimeout = 0)
    /\ [][(event.kind = "disconnect" /\ pendingConnects = 0 /\ event'.kind # "connect") =>
            /\ reconnectTimeout' = 0
            /\ Len(sockets') = Len(sockets)]_vars


(***************************************************************************)
(* C35.  While all members of a party stay connected, one participant      *)
(* plays and pauses its video a finite number of times, at any spacing     *)
(* (two actions may be less than one cooldown apart), and nobody else      *)
(* touches a player.  Once every message is delivered and every timer has  *)
(* fired, the paused state of every other member equals the paused state   *)
(* of that participant.                                                    *)
(***************************************************************************)
\* Nothing is in flight and no timer is pending.
Quiescent ==
    \A c \in ConnIds :
        uplink[c] = <<>> /\ downlink[c] = <<>> /\ tabs[c].syncTimers = {}
C35_OthersFollowTheActor ==
    (Together /\ Quiescent) =>
        \A b \in Browsers \ {Actor} :
            tabs[b].videoElement.paused = tabs[Actor].videoElement.paused

(***************************************************************************)
(* C36.  Two participants of a party issue conflicting local events (one   *)
(* play, one pause) concurrently, each relayed to the other before either  *)
(* has applied the other's.  Once all messages are delivered, all          *)
(* participants of the party hold the same paused state.                   *)
(***************************************************************************)
\* Every local event of SpecCross is sent, so the members' states can only
\* part where events cross.
C36_CrossingEventsConverge ==
    (Quiescent /\ Together) =>
        \A a, b \in Browsers :
            tabs[a].videoElement.paused = tabs[b].videoElement.paused


(***************************************************************************)
(* C40.  Whenever the stored state of the client says it is in the party   *)
(* with code C and its transport connection is open, the server holds that *)
(* connection as a participant of party C, also after a transport failure  *)
(* followed by an automatic reconnect.                                     *)
(***************************************************************************)
\* Stated for the moments at which the connection is open on both sides and
\* carries no frame in flight.
C40_StoredPartyIsServerParty ==
    (/\ storage[Self].inParty
     /\ ws # 0 /\ sockets[ws] = "OPEN" /\ readyState[ws] = "OPEN"
     /\ uplink[ws] = <<>> /\ downlink[ws] = <<>>)
    => /\ Has(parties, storage[Self].partyCode)
       /\ ws \in ParticipantIds(parties[storage[Self].partyCode])

====
